---- MODULE Spec2Model ----
(***************************************************************************)
(* A model of coimbatore_aqi_compare.py: the run orchestrator (main), the  *)
(* aggregator/recorder (summarize_and_append) with the CSV log it appends  *)
(* to, and the field extractor (extract_first_number).                     *)
(*                                                                         *)
(* Numbers: an index value (aqi) is a Python int and is modelled by the    *)
(* same integer; a float (a pollutant concentration, the average) is       *)
(* modelled in tenths, so 452 stands for 45.2 and 800 for 80.0.  What the  *)
(* csv writer puts in the file is text, and the cells of the log are the   *)
(* strings str() gives.                                                    *)
(***************************************************************************)
EXTENDS Integers, Sequences, FiniteSets, TLC

VARIABLES
    pc,           \* per process: where its run of main() stands
    iqair,        \* per process: main's local iqair
    aqi_in,       \* per process: main's local aqi_in
    stA,          \* per process: "pending", "ok" or "error" for source IQAir
    stB,          \* per process: the same for source AQI.in
    row,          \* per process: summarize_and_append's local row
    file_exists,  \* per process: summarize_and_append's local file_exists
    events,       \* per process: what the run has attempted, in order
    exists,       \* the file system: CSV_PATH exists
    log,          \* the file system: the lines of CSV_PATH
    clock,        \* the wall clock datetime.now() reads
    runs,         \* runs started so far
    fresh,        \* the log path did not exist before the first run
    log0,         \* the lines of the log before the first run
    completed,    \* runs that completed their append
    faults,       \* runs ended by a persistence fault
    txt,          \* extract_first_number: its argument txt
    regex_list,   \* extract_first_number: its argument regex_list
    idx,          \* extract_first_number: position of the for loop
    ret,          \* extract_first_number: the value returned
    epc           \* extract_first_number: "loop" or "returned"

vars == <<pc, iqair, aqi_in, stA, stB, row, file_exists, events,
          exists, log, clock, runs, fresh, log0, completed, faults,
          txt, regex_list, idx, ret, epc>>

\* Python's None; no value read from a page is negative.
None == -1

\* float('inf'), what float() gives for a digit string beyond the double range.
Inf == -2

\* ------------------------------------------------------------------ bounds

\* Runs the external scheduler starts one after another.
MaxRuns == 2

\* Processes that may run main(); the overlapping specification uses both.
Procs == {1, 2}

\* ------------------------------------------------- records and conversions

Fields == {"aqi", "pm25", "pm10", "co", "so2", "no2", "o3"}

\* The record main substitutes for a source whose fetch or parse raised.
AllAbsent == [f \in Fields |-> None]

\* What parse_iqair / parse_aqi_in can return: the index an int or None, each
\* pollutant a float (in tenths) or None.  A sample of pages: full readings,
\* readings with gaps, readings of zero, a page where no pattern matched.
ParsedPages ==
    { [aqi |-> 72, pm25 |-> 452, pm10 |-> 300, co |-> 5, so2 |-> None, no2 |-> None, o3 |-> None],
      [aqi |-> 89, pm25 |-> 500, pm10 |-> None, co |-> None, so2 |-> None, no2 |-> None, o3 |-> 121],
      [aqi |-> 0, pm25 |-> 0, pm10 |-> 0, co |-> 0, so2 |-> None, no2 |-> None, o3 |-> None],
      AllAbsent }

\* str() of an int.
IntStr(n) == ToString(n)

\* str() of a float held in tenths: 452 is "45.2", 800 is "80.0".
FloatStr(t) == ToString(t \div 10) \o "." \o ToString(t % 10)

\* strftime of the clock reading.
NowIso(t) == "T" \o ToString(t)

\* Python truthiness of a value that is None or a number: None and 0 are false.
Truthy(v) == v # None /\ v # 0

\* isinstance(v, (int, float))
IsNumber(v) == v # None

\* `v or ""` for an int, then what the csv writer makes of it.
IntOrEmpty(v) == IF Truthy(v) THEN IntStr(v) ELSE ""

\* `v or ""` for a float, then what the csv writer makes of it.
FloatOrEmpty(v) == IF Truthy(v) THEN FloatStr(v) ELSE ""

RECURSIVE Sum(_)
Sum(s) == IF s = <<>> THEN 0 ELSE Head(s) + Sum(Tail(s))

\* round(num / den, 1), in tenths: the nearest tenth, a tie going to the even one.
Round1(num, den) ==
    LET q == (num * 10) \div den
        r == (num * 10) % den
    IN  IF 2 * r > den THEN q + 1
        ELSE IF 2 * r < den THEN q
        ELSE IF q % 2 = 0 THEN q ELSE q + 1

\* A plausible slip: the filter tests truthiness, so an index of 0 is dropped.
AqiValsTruthy(a, b) == SelectSeq(<<a, b>>, Truthy)

\* aqi_vals: the index values that are numbers.
AqiVals(a, b) == SelectSeq(<<a, b>>, IsNumber)

\* avg, already as the csv writer writes it.
Avg(a, b) ==
    LET aqi_vals == AqiVals(a, b)
    IN  IF aqi_vals # <<>> THEN FloatStr(Round1(Sum(aqi_vals), Len(aqi_vals))) ELSE ""

\* list(row.keys()): the keys of row in insertion order.
FieldNames ==
    << "Timestamp", "IQAir_AQI", "IQAir_PM2.5", "IQAir_PM10",
       "AQIin_AQI", "AQIin_PM2.5", "AQIin_PM10", "Average_AQI" >>

\* The dict row of one run.
BuildRow(now, iq, ai) ==
    ("Timestamp" :> now)
    @@ ("IQAir_AQI" :> IntOrEmpty(iq.aqi))
    @@ ("IQAir_PM2.5" :> FloatOrEmpty(iq.pm25))
    @@ ("IQAir_PM10" :> FloatOrEmpty(iq.pm10))
    @@ ("AQIin_AQI" :> IntOrEmpty(ai.aqi))
    @@ ("AQIin_PM2.5" :> FloatOrEmpty(ai.pm25))
    @@ ("AQIin_PM10" :> FloatOrEmpty(ai.pm10))
    @@ ("Average_AQI" :> Avg(iq.aqi, ai.aqi))

\* row before it is built.
NoRow == [n \in {FieldNames[i] : i \in 1..Len(FieldNames)} |-> ""]

\* writer.writeheader(): the field names, in order.
HeaderLine == FieldNames

\* writer.writerow(row): the values of row in the order of the field names.
RowLine(r) == [i \in 1..Len(FieldNames) |-> r[FieldNames[i]]]

\* A plausible slip: the header is written on every run.
LinesToWriteAlways(fe, r) == <<HeaderLine, RowLine(r)>>

\* A plausible slip: the test inverted, the header written when the log exists.
LinesToWriteInverted(fe, r) == IF fe THEN <<HeaderLine, RowLine(r)>> ELSE <<RowLine(r)>>

\* What one run writes: the header if the log was seen missing, then the row.
LinesToWrite(fe, r) == IF ~fe THEN <<HeaderLine, RowLine(r)>> ELSE <<RowLine(r)>>

\* A plausible slip: the file is opened with mode "w", which truncates it.
OpenedContentTruncate(old) == <<>>

\* open(csv_path, "a"): the content of the file after the open.
OpenedContent(old) == old

\* A plausible slip: the except clause skips the rest of the fetching.
OnSourceErrorSkip(next) == "summarize"

\* A plausible slip: the exception is not caught and ends the run.
OnSourceErrorAbort(next) == "failed"

\* Where main goes on after an except clause: the next statement.
OnSourceError(next) == next

\* A log that existed before the first run.
OldLine == <<"T0", "61", "", "", "", "", "", "61.0">>
PreExistingLogs == { <<>>, <<HeaderLine>>, <<HeaderLine, OldLine>> }

\* ------------------------------------------------------ the extractor: idle

ExIdle ==
    /\ txt = <<>>
    /\ regex_list = <<>>
    /\ idx = 1
    /\ ret = None
    /\ epc = "returned"

\* ------------------------------------------------------------------- Init

InitRun ==
    /\ pc = [p \in Procs |-> "idle"]
    /\ iqair = [p \in Procs |-> AllAbsent]
    /\ aqi_in = [p \in Procs |-> AllAbsent]
    /\ stA = [p \in Procs |-> "pending"]
    /\ stB = [p \in Procs |-> "pending"]
    /\ row = [p \in Procs |-> NoRow]
    /\ file_exists = [p \in Procs |-> FALSE]
    /\ events = [p \in Procs |-> <<>>]
    /\ clock = 0
    /\ runs = 0
    /\ completed = 0
    /\ faults = 0
    /\ \/ exists = FALSE /\ log = <<>> /\ fresh = TRUE
       \/ exists = TRUE /\ log \in PreExistingLogs /\ fresh = FALSE
    /\ log0 = log

Init == InitRun /\ ExIdle

\* ------------------------------------------------------- main, step by step

\* A run begins: main's locals are unassigned.
Begin(p) ==
    /\ pc' = [pc EXCEPT ![p] = "fetchA"]
    /\ iqair' = [iqair EXCEPT ![p] = AllAbsent]
    /\ aqi_in' = [aqi_in EXCEPT ![p] = AllAbsent]
    /\ stA' = [stA EXCEPT ![p] = "pending"]
    /\ stB' = [stB EXCEPT ![p] = "pending"]
    /\ row' = [row EXCEPT ![p] = NoRow]
    /\ file_exists' = [file_exists EXCEPT ![p] = FALSE]
    /\ events' = [events EXCEPT ![p] = <<>>]
    /\ clock' = clock + 1
    /\ runs' = runs + 1
    /\ UNCHANGED <<exists, log, fresh, completed, faults, log0, txt, regex_list, idx, ret, epc>>

\* The scheduler starts the next run once the previous one has ended.
StartRun ==
    /\ runs < MaxRuns
    /\ pc[1] \in {"idle", "done", "failed"}
    /\ Begin(1)

\* Without a scheduler: a process starts its run whatever the other one does.
StartOverlapping(p) ==
    /\ pc[p] = "idle"
    /\ Begin(p)

\* h = fetch_html(urls["IQAir"]): returns, or raises into the except clause.
FetchA(p) ==
    /\ pc[p] = "fetchA"
    /\ events' = [events EXCEPT ![p] = Append(@, "fetchA")]
    /\ \/ /\ pc' = [pc EXCEPT ![p] = "parseA"]
          /\ UNCHANGED <<iqair, stA>>
       \/ /\ iqair' = [iqair EXCEPT ![p] = AllAbsent]
          /\ stA' = [stA EXCEPT ![p] = "error"]
          /\ pc' = [pc EXCEPT ![p] = OnSourceError("fetchB")]
    /\ UNCHANGED <<aqi_in, stB, row, file_exists, exists, log, clock, runs, fresh,
                   completed, faults, log0, txt, regex_list, idx, ret, epc>>

\* iqair = parse_iqair(h): returns a record, or raises into the except clause.
ParseA(p) ==
    /\ pc[p] = "parseA"
    /\ \/ \E r \in ParsedPages :
             /\ iqair' = [iqair EXCEPT ![p] = r]
             /\ stA' = [stA EXCEPT ![p] = "ok"]
             /\ pc' = [pc EXCEPT ![p] = "fetchB"]
       \/ /\ iqair' = [iqair EXCEPT ![p] = AllAbsent]
          /\ stA' = [stA EXCEPT ![p] = "error"]
          /\ pc' = [pc EXCEPT ![p] = OnSourceError("fetchB")]
    /\ UNCHANGED <<aqi_in, stB, row, file_exists, events, exists, log, clock, runs,
                   fresh, completed, faults, log0, txt, regex_list, idx, ret, epc>>

\* h = fetch_html(urls["AQI.in"]): returns, or raises into the except clause.
FetchB(p) ==
    /\ pc[p] = "fetchB"
    /\ events' = [events EXCEPT ![p] = Append(@, "fetchB")]
    /\ \/ /\ pc' = [pc EXCEPT ![p] = "parseB"]
          /\ UNCHANGED <<aqi_in, stB>>
       \/ /\ aqi_in' = [aqi_in EXCEPT ![p] = AllAbsent]
          /\ stB' = [stB EXCEPT ![p] = "error"]
          /\ pc' = [pc EXCEPT ![p] = OnSourceError("summarize")]
    /\ UNCHANGED <<iqair, stA, row, file_exists, exists, log, clock, runs, fresh,
                   completed, faults, log0, txt, regex_list, idx, ret, epc>>

\* aqi_in = parse_aqi_in(h): returns a record, or raises into the except clause.
ParseB(p) ==
    /\ pc[p] = "parseB"
    /\ \/ \E r \in ParsedPages :
             /\ aqi_in' = [aqi_in EXCEPT ![p] = r]
             /\ stB' = [stB EXCEPT ![p] = "ok"]
             /\ pc' = [pc EXCEPT ![p] = "summarize"]
       \/ /\ aqi_in' = [aqi_in EXCEPT ![p] = AllAbsent]
          /\ stB' = [stB EXCEPT ![p] = "error"]
          /\ pc' = [pc EXCEPT ![p] = OnSourceError("summarize")]
    /\ UNCHANGED <<iqair, stA, row, file_exists, events, exists, log, clock, runs,
                   fresh, completed, faults, log0, txt, regex_list, idx, ret, epc>>

\* summarize_and_append is entered: the timestamp, the average, the row, the
\* summary printed.
Summarize(p) ==
    /\ pc[p] = "summarize"
    /\ events' = [events EXCEPT ![p] = Append(@, "record")]
    /\ row' = [row EXCEPT ![p] = BuildRow(NowIso(clock), iqair[p], aqi_in[p])]
    /\ pc' = [pc EXCEPT ![p] = "exists"]
    /\ UNCHANGED <<iqair, aqi_in, stA, stB, file_exists, exists, log, clock, runs,
                   fresh, completed, faults, log0, txt, regex_list, idx, ret, epc>>

\* file_exists = os.path.exists(csv_path)
CheckExists(p) ==
    /\ pc[p] = "exists"
    /\ file_exists' = [file_exists EXCEPT ![p] = exists]
    /\ pc' = [pc EXCEPT ![p] = "open"]
    /\ UNCHANGED <<iqair, aqi_in, stA, stB, row, events, exists, log, clock, runs,
                   fresh, completed, faults, log0, txt, regex_list, idx, ret, epc>>

\* open(csv_path, "a"): creates the file when it is missing.
Open(p) ==
    /\ pc[p] = "open"
    /\ exists' = TRUE
    /\ log' = OpenedContent(log)
    /\ pc' = [pc EXCEPT ![p] = "write"]
    /\ UNCHANGED <<iqair, aqi_in, stA, stB, row, file_exists, events, clock, runs,
                   fresh, completed, faults, log0, txt, regex_list, idx, ret, epc>>

\* open raises (the path cannot be written): nothing catches it.
OpenFault(p) ==
    /\ pc[p] = "open"
    /\ pc' = [pc EXCEPT ![p] = "failed"]
    /\ faults' = faults + 1
    /\ UNCHANGED <<iqair, aqi_in, stA, stB, row, file_exists, events, exists, log,
                   clock, runs, fresh, completed, log0, txt, regex_list, idx, ret, epc>>

\* The header if the log was missing, the row, the file closed: the run ends.
Write(p) ==
    /\ pc[p] = "write"
    /\ log' = log \o LinesToWrite(file_exists[p], row[p])
    /\ pc' = [pc EXCEPT ![p] = "done"]
    /\ completed' = completed + 1
    /\ UNCHANGED <<iqair, aqi_in, stA, stB, row, file_exists, events, exists, clock,
                   runs, fresh, faults, log0, txt, regex_list, idx, ret, epc>>

\* A write raises (the device is full): the lines written before it stay, the
\* row is not among them, and nothing catches the exception.
WriteFault(p) ==
    /\ pc[p] = "write"
    /\ \E n \in 0..(Len(LinesToWrite(file_exists[p], row[p])) - 1) :
          log' = log \o SubSeq(LinesToWrite(file_exists[p], row[p]), 1, n)
    /\ pc' = [pc EXCEPT ![p] = "failed"]
    /\ faults' = faults + 1
    /\ UNCHANGED <<iqair, aqi_in, stA, stB, row, file_exists, events, exists, clock,
                   runs, fresh, completed, log0, txt, regex_list, idx, ret, epc>>

Step(p) ==
    \/ FetchA(p)
    \/ ParseA(p)
    \/ FetchB(p)
    \/ ParseB(p)
    \/ Summarize(p)
    \/ CheckExists(p)
    \/ Open(p)
    \/ OpenFault(p)
    \/ Write(p)
    \/ WriteFault(p)

\* Runs one at a time, as the external scheduler serializes them.
Next ==
    \/ StartRun
    \/ \E p \in Procs : Step(p)

Spec == Init /\ [][Next]_vars

\* The same runs, each step of a started run eventually taken: a fetch is
\* bounded by its timeout and every other step is straight-line code.
FairSpec == Init /\ [][Next]_vars /\ WF_vars(\E p \in Procs : Step(p))

\* Two processes, one run each, nothing keeping them apart.
NextOverlap == \E p \in Procs : StartOverlapping(p) \/ Step(p)

SpecOverlap == Init /\ [][NextOverlap]_vars

\* --------------------------------------------------------- the extractor

\* Longest text, in tokens, given to extract_first_number.
MaxLen == 3

\* Longest pattern list given to extract_first_number.
MaxPats == 2

\* A text is a sequence of whitespace-separated tokens.  "9{400}" stands for a
\* run of 400 digits 9.
Tokens == {"PM2.5", "AQI", "aqi", "7", "45.2", "1.2.3", "good", "9{400}"}

\* A pattern is a label followed by one group.  With group "number" it has the
\* shape of the entries of PATTERNS, label\s*[: ]?\s*([0-9]+(?:\.[0-9]+)?);
\* with group "token" it is label\s*(\S+), whose group takes whatever follows.
Pats == [label : {"PM2.5", "AQI"}, group : {"number", "token"}]

RECURSIVE SeqsUpTo(_, _)
SeqsUpTo(S, n) ==
    IF n = 0 THEN {<<>>}
    ELSE LET shorter == SeqsUpTo(S, n - 1)
         IN  shorter \cup {Append(q, x) : q \in {r \in shorter : Len(r) = n - 1}, x \in S}

\* re.IGNORECASE: letters compared with their case folded.
Fold(tok) == IF tok = "aqi" THEN "AQI" ELSE tok

\* The match of [0-9]+(?:\.[0-9]+)? at the start of a token; "" when it has none.
LeadingNumber(tok) ==
    CASE tok = "7" -> "7"
      [] tok = "45.2" -> "45.2"
      [] tok = "1.2.3" -> "1.2"
      [] tok = "9{400}" -> "9{400}"
      [] OTHER -> ""

\* The first match of [0-9]+(?:\.[0-9]+)? anywhere in a token; "" when none.
EmbeddedNumber(tok) ==
    CASE tok = "PM2.5" -> "2.5"
      [] OTHER -> LeadingNumber(tok)

\* float(s) raises ValueError: s is not the text of a number.
FloatRaises(s) == s \notin {"7", "45.2", "1.2", "2.5", "9{400}"}

\* float(s), in tenths, for a text it accepts; 400 digits overflow to inf.
FloatValue(s) ==
    CASE s = "7" -> 70
      [] s = "45.2" -> 452
      [] s = "1.2" -> 12
      [] s = "2.5" -> 25
      [] s = "9{400}" -> Inf

\* Whether the pattern matches with its label at token i of the text.
MatchesAt(pat, t, i) ==
    /\ i + 1 <= Len(t)
    /\ Fold(t[i]) = pat.label
    /\ pat.group = "number" => LeadingNumber(t[i + 1]) # ""

\* re.search(pat, txt, re.IGNORECASE): the leftmost match, 0 when there is none.
Search(pat, t) ==
    LET at == {i \in 1..Len(t) : MatchesAt(pat, t, i)}
    IN  IF at = {} THEN 0 ELSE CHOOSE i \in at : \A j \in at : i <= j

\* m.group(1)
Group1(pat, t, i) == IF pat.group = "number" THEN LeadingNumber(t[i + 1]) ELSE t[i + 1]

\* m.group(0): the matched span.
Group0(pat, t, i) == <<t[i], Group1(pat, t, i)>>

\* re.search(r'([0-9]+(?:\.[0-9]+)?)', m.group(0)): the first number in the
\* span, "" when it holds none.
Rescan(span) ==
    LET at == {j \in 1..Len(span) : EmbeddedNumber(span[j]) # ""}
    IN  IF at = {} THEN "" ELSE EmbeddedNumber(span[CHOOSE j \in at : \A h \in at : j <= h])

\* The body of the for loop for one pattern: the value returned, or None when
\* the loop goes on to the next pattern.
TryPattern(pat, t) ==
    LET i == Search(pat, t)
    IN  IF i = 0 THEN None
        ELSE IF ~FloatRaises(Group1(pat, t, i)) THEN FloatValue(Group1(pat, t, i))
        ELSE LET mm == Rescan(Group0(pat, t, i))
             IN  IF mm # "" THEN FloatValue(mm) ELSE None

\* A plausible slip: the list walked from its end.
PatAtReversed(lst, i) == lst[Len(lst) + 1 - i]

\* for pat in regex_list: the pattern of the i-th iteration.
PatAt(lst, i) == lst[i]

\* main and the log at rest while the extractor is exercised.
RunIdle ==
    /\ pc = [p \in Procs |-> "idle"]
    /\ iqair = [p \in Procs |-> AllAbsent]
    /\ aqi_in = [p \in Procs |-> AllAbsent]
    /\ stA = [p \in Procs |-> "pending"]
    /\ stB = [p \in Procs |-> "pending"]
    /\ row = [p \in Procs |-> NoRow]
    /\ file_exists = [p \in Procs |-> FALSE]
    /\ events = [p \in Procs |-> <<>>]
    /\ clock = 0
    /\ runs = 0
    /\ completed = 0
    /\ faults = 0
    /\ exists = FALSE
    /\ log = <<>>
    /\ fresh = TRUE
    /\ log0 = <<>>

\* extract_first_number is called with a text and a pattern list.
InitExtract ==
    /\ RunIdle
    /\ txt \in SeqsUpTo(Tokens, MaxLen)
    /\ regex_list \in SeqsUpTo(Pats, MaxPats)
    /\ idx = 1
    /\ ret = None
    /\ epc = "loop"

\* One iteration of the for loop that returns a value.
LoopReturn ==
    /\ epc = "loop"
    /\ idx <= Len(regex_list)
    /\ TryPattern(PatAt(regex_list, idx), txt) # None
    /\ ret' = TryPattern(PatAt(regex_list, idx), txt)
    /\ epc' = "returned"
    /\ UNCHANGED <<idx, txt, regex_list, pc, iqair, aqi_in, stA, stB, row, file_exists,
                   events, exists, log, clock, runs, fresh, log0, completed, faults>>

\* One iteration of the for loop that goes on to the next pattern.
LoopContinue ==
    /\ epc = "loop"
    /\ idx <= Len(regex_list)
    /\ TryPattern(PatAt(regex_list, idx), txt) = None
    /\ idx' = idx + 1
    /\ UNCHANGED <<ret, epc, txt, regex_list, pc, iqair, aqi_in, stA, stB, row,
                   file_exists, events, exists, log, clock, runs, fresh, log0,
                   completed, faults>>

\* The list is exhausted: return None.
ReturnNone ==
    /\ epc = "loop"
    /\ idx > Len(regex_list)
    /\ ret' = None
    /\ epc' = "returned"
    /\ UNCHANGED <<idx, txt, regex_list, pc, iqair, aqi_in, stA, stB, row, file_exists,
                   events, exists, log, clock, runs, fresh, log0, completed, faults>>

NextExtract == LoopReturn \/ LoopContinue \/ ReturnNone

SpecExtract == InitExtract /\ [][NextExtract]_vars

\* --------------------------------------------------------------- vocabulary

Ended == {"done", "failed"}
InRecorder == {"exists", "open", "write", "done", "failed"}

IsPrefix(s, t) == Len(s) <= Len(t) /\ SubSeq(t, 1, Len(s)) = s

RECURSIVE CountHeaders(_)
CountHeaders(l) ==
    IF l = <<>> THEN 0
    ELSE (IF Head(l) = HeaderLine THEN 1 ELSE 0) + CountHeaders(Tail(l))

DataRows(l) == Len(l) - CountHeaders(l)

Last(l) == l[Len(l)]

\* The mean of the index values that are present, to one decimal, as text; empty
\* when there is none.  Index values are whole numbers, so the mean of two is a
\* whole number of twentieths and 5 * (a + b) is that mean in tenths.
MeanText(a, b) ==
    IF a = None /\ b = None THEN ""
    ELSE IF b = None THEN FloatStr(10 * a)
    ELSE IF a = None THEN FloatStr(10 * b)
    ELSE FloatStr(5 * (a + b))

\* A field as a direct mapping writes it: empty when absent, else its text.
IndexText(v) == IF v = None THEN "" ELSE IntStr(v)
ConcText(v) == IF v = None THEN "" ELSE FloatStr(v)

\* ------------------------------------------------------------------- claims

\* C1: once the row of a run is built, and in the line a completed run has
\* written, the Average_AQI column is the mean of exactly the index values that
\* are not absent, rounded to one decimal; with both absent it is empty.
C1_Average ==
    \A p \in Procs :
        /\ pc[p] \in InRecorder =>
              row[p]["Average_AQI"] = MeanText(iqair[p].aqi, aqi_in[p].aqi)
        /\ pc[p] = "done" =>
              Last(log)[8] = MeanText(iqair[p].aqi, aqi_in[p].aqi)

\* C1 witness: a completed run whose first index is 0 and whose second is 89:
\* both contribute, and the average written is 44.5.
C1_Witness ==
    /\ pc[1] = "done"
    /\ iqair[1].aqi = 0
    /\ aqi_in[1].aqi = 89
    /\ Last(log)[8] = "44.5"

\* C2 (as claimed): when one source raised and the other succeeded, the line
\* written holds the succeeding source's real values, the failing source's
\* columns are empty and the average is the succeeding source's index alone.
C2_FaultIsolation ==
    \A p \in Procs :
        pc[p] = "done" =>
            /\ (stA[p] = "error" /\ stB[p] = "ok") =>
                  /\ SubSeq(Last(log), 2, 4) = <<"", "", "">>
                  /\ SubSeq(Last(log), 5, 7) =
                        << IndexText(aqi_in[p].aqi), ConcText(aqi_in[p].pm25),
                           ConcText(aqi_in[p].pm10) >>
                  /\ Last(log)[8] = MeanText(None, aqi_in[p].aqi)
            /\ (stA[p] = "ok" /\ stB[p] = "error") =>
                  /\ SubSeq(Last(log), 5, 7) = <<"", "", "">>
                  /\ SubSeq(Last(log), 2, 4) =
                        << IndexText(iqair[p].aqi), ConcText(iqair[p].pm25),
                           ConcText(iqair[p].pm10) >>
                  /\ Last(log)[8] = MeanText(iqair[p].aqi, None)

\* C3: from a log path that did not exist, and with no persistence fault, the
\* log is empty until a run completes and is then one header line followed by
\* one line per completed run, each of 8 columns in the documented order; the
\* run that wrote the header is the one that saw the log missing.
C3_OneHeaderNRows ==
    (fresh /\ faults = 0) =>
        /\ completed = 0 => log = <<>>
        /\ completed > 0 =>
              /\ Len(log) = completed + 1
              /\ log[1] = << "Timestamp", "IQAir_AQI", "IQAir_PM2.5", "IQAir_PM10",
                             "AQIin_AQI", "AQIin_PM2.5", "AQIin_PM10", "Average_AQI" >>
              /\ \A i \in 2..Len(log) : log[i] # HeaderLine /\ Len(log[i]) = 8
        /\ pc[1] = "done" =>
              /\ file_exists[1] = (completed > 1)
              /\ Last(log)[1] = NowIso(clock)
              /\ Last(log)[2] \in {"", IndexText(iqair[1].aqi)}
              /\ Last(log)[3] \in {"", ConcText(iqair[1].pm25)}
              /\ Last(log)[4] \in {"", ConcText(iqair[1].pm10)}
              /\ Last(log)[5] \in {"", IndexText(aqi_in[1].aqi)}
              /\ Last(log)[6] \in {"", ConcText(aqi_in[1].pm25)}
              /\ Last(log)[7] \in {"", ConcText(aqi_in[1].pm10)}
              /\ Last(log)[8] \in {"", MeanText(iqair[1].aqi, aqi_in[1].aqi)}

\* C3 witness: the second of two runs on a fresh path has completed.
C3_Witness ==
    /\ fresh
    /\ faults = 0
    /\ completed = 2
    /\ pc[1] = "done"
    /\ Len(log) = 3

\* C4: in every run the attempts are, in this order and once each, the fetch of
\* source A, the fetch of source B, the recorder; the fetch of B is attempted
\* only when A is resolved and the recorder entered only when both are.
C4_Order ==
    \A p \in Procs :
        /\ IsPrefix(events[p], <<"fetchA", "fetchB", "record">>)
        /\ pc[p] \in {"idle", "fetchA"} => events[p] = <<>>
        /\ pc[p] \in {"parseA", "fetchB"} => events[p] = <<"fetchA">>
        /\ pc[p] \in {"parseB", "summarize"} => events[p] = <<"fetchA", "fetchB">>
        /\ pc[p] \in InRecorder => events[p] = <<"fetchA", "fetchB", "record">>
        /\ Len(events[p]) >= 2 => stA[p] # "pending"
        /\ Len(events[p]) = 3 => stB[p] # "pending"

\* C4 witness: a run whose source A failed has fetched B and recorded, once each.
C4_Witness ==
    /\ pc[1] = "done"
    /\ stA[1] = "error"
    /\ events[1] = <<"fetchA", "fetchB", "record">>

\* C7: every started run ends; it ends normally with exactly one row appended,
\* however many sources failed, unless a persistence fault ended it, and then
\* no row was appended.
C7_Terminates ==
    /\ [](pc[1] \in Ended =>
            /\ completed + faults = runs
            /\ DataRows(log) = DataRows(log0) + completed)
    /\ [](pc[1] = "done" => Last(log) = RowLine(row[1]))
    /\ [](pc[1] = "failed" => faults > 0 /\ events[1] = <<"fetchA", "fetchB", "record">>)
    /\ \A p \in Procs : (pc[p] = "fetchA") ~> (pc[p] \in Ended)

\* C7 witness: a run in which both sources failed has ended normally, its row
\* appended.
C7_Witness ==
    /\ pc[1] = "done"
    /\ stA[1] = "error"
    /\ stB[1] = "error"
    /\ faults = 0
    /\ DataRows(log) = DataRows(log0) + 1

\* C8: the log only grows at its end: every step leaves the lines already there
\* as a prefix, a step that completes a run adds exactly one data row, and no
\* other step adds one; what was in the log before the first run stays.
C8_AppendOnly ==
    /\ [](IsPrefix(log0, log))
    /\ [][ /\ IsPrefix(log, log')
           /\ DataRows(log') = DataRows(log) + (completed' - completed)
           /\ completed' - completed \in {0, 1} ]_vars

\* C8 witness: a log that held a header and a row before the first run has had
\* two rows appended after them.
C8_Witness ==
    /\ log0 = <<HeaderLine, OldLine>>
    /\ completed = 2
    /\ Len(log) = 4
    /\ SubSeq(log, 1, 2) = log0

\* C9 (as claimed): each of the six source columns is empty exactly when the
\* field is absent and otherwise holds the field's value unchanged, and the
\* average is empty exactly when both index columns are.
C9_DirectMapping ==
    \A p \in Procs :
        pc[p] \in InRecorder =>
            /\ row[p]["IQAir_AQI"] = IndexText(iqair[p].aqi)
            /\ row[p]["IQAir_PM2.5"] = ConcText(iqair[p].pm25)
            /\ row[p]["IQAir_PM10"] = ConcText(iqair[p].pm10)
            /\ row[p]["AQIin_AQI"] = IndexText(aqi_in[p].aqi)
            /\ row[p]["AQIin_PM2.5"] = ConcText(aqi_in[p].pm25)
            /\ row[p]["AQIin_PM10"] = ConcText(aqi_in[p].pm10)
            /\ (row[p]["Average_AQI"] = "") <=>
                  (row[p]["IQAir_AQI"] = "" /\ row[p]["AQIin_AQI"] = "")

\* C10: when two overlapping runs both saw the log missing and both completed,
\* the log holds two header lines, one before each run's row.
C10_TwoHeaders ==
    (/\ pc[1] = "done" /\ pc[2] = "done"
     /\ ~file_exists[1] /\ ~file_exists[2]) =>
        /\ Len(log) = 4
        /\ CountHeaders(log) = 2
        /\ log[1] = HeaderLine
        /\ log[3] = HeaderLine

\* C10 witness: both runs saw the log missing, both completed, two headers.
C10_Witness ==
    /\ pc[1] = "done" /\ pc[2] = "done"
    /\ fresh
    /\ ~file_exists[1] /\ ~file_exists[2]
    /\ CountHeaders(log) = 2

\* The patterns of the list that match the text and yield a number: the group
\* converts, or the matched span holds a number.
Yields(pat, t) ==
    \E i \in 1..Len(t) :
        /\ MatchesAt(pat, t, i)
        /\ \A j \in 1..(i - 1) : ~MatchesAt(pat, t, j)
        /\ \/ ~FloatRaises(Group1(pat, t, i))
           \/ EmbeddedNumber(t[i]) # ""
           \/ EmbeddedNumber(t[i + 1]) # ""

\* C5: the value returned is the value of the first pattern of the list that
\* yields a number, whatever the later patterns match; when the first and the
\* second pattern both match with a group that converts, it is the first's.
C5_FirstMatchWins ==
    epc = "returned" =>
        /\ \A i \in 1..Len(regex_list) :
              (/\ Yields(regex_list[i], txt)
               /\ \A j \in 1..(i - 1) : ~Yields(regex_list[j], txt)) =>
                  ret = TryPattern(regex_list[i], txt)
        /\ (/\ Len(regex_list) >= 2
            /\ Search(regex_list[1], txt) # 0
            /\ Search(regex_list[2], txt) # 0
            /\ ~FloatRaises(Group1(regex_list[1], txt, Search(regex_list[1], txt)))) =>
                  ret = FloatValue(Group1(regex_list[1], txt, Search(regex_list[1], txt)))

\* C5 witness: both patterns match, the second one earlier in the text and with
\* another value, and the first pattern's value is returned.
C5_Witness ==
    /\ epc = "returned"
    /\ Len(regex_list) = 2
    /\ Search(regex_list[1], txt) > Search(regex_list[2], txt)
    /\ Search(regex_list[2], txt) # 0
    /\ TryPattern(regex_list[2], txt) # None
    /\ TryPattern(regex_list[2], txt) # TryPattern(regex_list[1], txt)
    /\ ret = TryPattern(regex_list[1], txt)
    /\ ret # None

\* C6 (as claimed): the extractor returns a finite float or absent; a match
\* whose group does not convert is re-scanned, a re-scan that finds nothing
\* moves on to the next pattern, and with no pattern yielding the result is
\* absent.
C6_FiniteOrAbsent ==
    epc = "returned" =>
        /\ ret = None \/ ret >= 0
        /\ (\A i \in 1..Len(regex_list) : ~Yields(regex_list[i], txt)) => ret = None
        /\ (\E i \in 1..Len(regex_list) : Yields(regex_list[i], txt)) => ret # None

====
